---- MODULE Spec2Model ----
(***************************************************************************)
(* Tutorial05_TextureArray (src/src/Tutorial05_TextureArray.cpp): the      *)
(* texture array builder (LoadTextures), the instance layout generator     *)
(* (PopulateInstanceBuffer), the frame renderer (Render) and the orbit     *)
(* camera controller (Update).                                             *)
(*                                                                         *)
(* Number representation.  The C++ floats are modelled in fixed point:     *)
(*   angles (yaw, pitch, angle)        micro-radians   (1.0 rad = 1000000) *)
(*   unit vectors, sinf, cosf          thousandths     (1.0     = 1000)    *)
(*   the camera offset                 hundredths      (1.0     = 100)     *)
(*   distance, wheel, target, pan      whole units; ElapsedTime in ms                         *)
(*   scale factors of the parts        hundredths      (0.01    = 1)       *)
(*                                                                         *)
(* The frame loop runs on one thread: Initialize once, then Update (which  *)
(* runs UpdateUI) and Render in every frame.  Update touches only the      *)
(* camera statics and Render only the buffers, so the two are explored     *)
(* under separate specifications: Spec (Initialize, UpdateUI, Render),     *)
(* SpecCamera (Initialize, Update) and SpecTextures (Initialize over every *)
(* batch of image descriptors).                                            *)
(*                                                                         *)
(* ImGui reports a click to the one button under the pointer, so at most   *)
(* one preset button returns true in an Update.                            *)
(***************************************************************************)
EXTENDS Integers, Sequences, FiniteSets, TLC

VARIABLES
    \* ---- orbit camera: the function-local statics of Update and its outputs
    yaw,               \* static float yaw                      (line 335)
    pitch,             \* static float pitch                    (line 336)
    distance,          \* static float distance                 (line 337)
    target,            \* static float3 target                  (line 338)
    viewPitch,         \* the pitch m_ViewProjMatrix was derived from (lines 364-406)
    lastButton,        \* the ImGui::Button that returned true in the last Update
    \* ---- instance layout generator and frame renderer
    m_GridSize,        \* slider value                          (line 179)
    angle,             \* static float angle                    (line 201)
    populateCalls,     \* number of PopulateInstanceBuffer calls so far
    m_InstanceBuffer,  \* the records UpdateBuffer has written  (line 279)
    pc,                \* position of the frame loop thread
    cmds,              \* device-context commands issued by the current Render
    cbMapped,          \* m_VSConstants is mapped for writing   (line 305)
    m_VSConstants,     \* contents of the uniform buffer        (lines 306-307)
    DrawAttrs,         \* the DrawIndexedAttribs of the last DrawIndexed (line 322)
    \* ---- texture array builder
    build,             \* "debug": VERIFY is active; "release": VERIFY expands to nothing
    TexLoaders,        \* descriptor of every loaded image      (line 131)
    SubresData,        \* initialization data of the array      (line 154)
    subresWrites,      \* destination indices in the order line 159 wrote them
    pTexArray,         \* the texture CreateTexture was called for, or NoTexture
    srbTexture         \* what g_Texture of m_SRB is bound to   (line 171)

camVars == <<yaw, pitch, distance, target, viewPitch, lastButton>>
renderVars == <<m_GridSize, angle, populateCalls, m_InstanceBuffer, pc, cmds,
                cbMapped, m_VSConstants, DrawAttrs>>
texVars == <<build, TexLoaders, SubresData, subresWrites, pTexArray, srbTexture>>
vars == <<camVars, renderVars, texVars>>

-----------------------------------------------------------------------------
\* Bounds of the model

\* |yaw| a drag may reach, in micro-radians (yaw is unbounded in the program)
MaxYaw == 800000
\* squared distance of the target from its initial position explored
MaxPanSq == 1
\* PopulateInstanceBuffer calls explored
MaxCalls == 7
\* mip levels of a loaded image explored
MaxMips == 3
\* input channels (drag, wheel, keys, button) that one Update sees active
MaxActive == 1

-----------------------------------------------------------------------------
\* Program constants

PI_F == 3141593
\* const float sensitivity = 0.005f, in micro-radians per pixel
sensitivity == 5000
\* const float pitchLimit = 1.57f * 0.99f = 1.5543
pitchLimit == 1554300
DistanceMin == 1
DistanceMax == 100
DistanceInit == 20
\* distance -= wheel * 2.0f
WheelFactor == 2
\* float panSpeed = 5.0f * ElapsedTime, per second
PanFactor == 5
MaxGridSize == 32
NumIndices == 36
\* const Uint32 NumInstances = 22
NumInstances == 22
\* angle += 0.003f, in micro-radians
AngleStep == 3000
\* the number of images, and of layers of the array
NumTextures == 4

-----------------------------------------------------------------------------
\* Fixed-point arithmetic

Abs(a) == IF a < 0 THEN -a ELSE a

\* a / b rounded to the nearest integer, b > 0
RoundDiv(a, b) == IF a >= 0 THEN (2 * a + b) \div (2 * b)
                            ELSE -((2 * (-a) + b) \div (2 * b))

RECURSIVE SqrtSearch(_, _, _)
SqrtSearch(n, lo, hi) ==
    IF lo >= hi THEN lo
    ELSE LET mid == (lo + hi + 1) \div 2
         IN IF mid * mid <= n THEN SqrtSearch(n, mid, hi)
                              ELSE SqrtSearch(n, lo, mid - 1)

\* floor of the square root of n, 0 <= n < 2^30
ISqrt(n) == SqrtSearch(n, 0, 32767)

\* sine of x thousandths of a radian, 0 <= x <= pi, in thousandths
\* (Bhaskara's rational approximation, error below 0.002)
SinHalfTurn(x) ==
    LET q == x * (3142 - x)
    IN RoundDiv(16000 * (q \div 100), (49348022 - 4 * q) \div 100)

\* sinf(a), a in micro-radians, result in thousandths
sinf(a) ==
    LET m == RoundDiv(a, 1000) % 6283
    IN IF m <= 3142 THEN SinHalfTurn(m) ELSE -SinHalfTurn(m - 3142)

\* cosf(a) = sinf(a + pi/2)
cosf(a) == sinf(a + 1570796)

Add3(a, b) == <<a[1] + b[1], a[2] + b[2], a[3] + b[3]>>
Sub3(a, b) == <<a[1] - b[1], a[2] - b[2], a[3] - b[3]>>

\* cross product of two vectors in thousandths, in thousandths
cross(a, b) == <<RoundDiv(a[2] * b[3] - a[3] * b[2], 1000),
                 RoundDiv(a[3] * b[1] - a[1] * b[3], 1000),
                 RoundDiv(a[1] * b[2] - a[2] * b[1], 1000)>>

\* normalize(v): v / length(v), in thousandths.  A zero vector has no
\* direction: the float division yields NaN components, modelled as <<0,0,0>>.
normalize(v) ==
    LET len == ISqrt(v[1] * v[1] + v[2] * v[2] + v[3] * v[3])
    IN IF len = 0 THEN <<0, 0, 0>>
       ELSE <<RoundDiv(v[1] * 1000, len), RoundDiv(v[2] * 1000, len),
              RoundDiv(v[3] * 1000, len)>>

-----------------------------------------------------------------------------
\* Orbit camera controller: Tutorial05_TextureArray::Update

\* The preset buttons, in the order Update tests them
Buttons == <<"Front-Right", "Top-Right", "Front-Left", "Right", "Up", "Front",
             "Left", "Down", "Back", "Right-Bottom", "Down-Left", "Left-Bottom">>
NoButton == "none"
ButtonNames == {Buttons[i] : i \in 1..Len(Buttons)}

\* yaw assigned by a preset button
PresetYaw(b) ==
    CASE b = "Front-Right"  -> PI_F \div 4
      [] b = "Top-Right"    -> 0
      [] b = "Front-Left"   -> -(PI_F \div 4)
      [] b = "Right"        -> PI_F \div 2
      [] b = "Up"           -> 0
      [] b = "Front"        -> 0
      [] b = "Left"         -> -(PI_F \div 2)
      [] b = "Down"         -> 0
      [] b = "Back"         -> PI_F
      [] b = "Right-Bottom" -> PI_F \div 4
      [] b = "Down-Left"    -> 0
      [] b = "Left-Bottom"  -> -(PI_F \div 4)

\* pitch assigned by a preset button
PresetPitch(b) ==
    CASE b = "Front-Right"  -> PI_F \div 4
      [] b = "Top-Right"    -> PI_F \div 4
      [] b = "Front-Left"   -> PI_F \div 4
      [] b = "Right"        -> 0
      [] b = "Up"           -> PI_F \div 2
      [] b = "Front"        -> 0
      [] b = "Left"         -> 0
      [] b = "Down"         -> -(PI_F \div 2)
      [] b = "Back"         -> 0
      [] b = "Right-Bottom" -> -(PI_F \div 4)
      [] b = "Down-Left"    -> -(PI_F \div 4)
      [] b = "Left-Bottom"  -> -(PI_F \div 4)

\* lines 342-347: a left-button drag turns the camera about the vertical axis
DragYaw(y, io) == IF io.dragging THEN y + io.dx * sensitivity ELSE y


\* ClampPitch without its second test (line 352)
ClampPitchUpperOnly(p) == IF p > pitchLimit THEN pitchLimit ELSE p

\* lines 349-353
ClampPitch(p) ==
    LET p1 == IF p > pitchLimit THEN pitchLimit ELSE p
    IN IF p1 < -pitchLimit THEN -pitchLimit ELSE p1


\* ClampDistance without its second test (line 360)
ClampDistanceLowerOnly(d) == IF d < DistanceMin THEN DistanceMin ELSE d

\* lines 359-360
ClampDistance(d) ==
    LET d1 == IF d < DistanceMin THEN DistanceMin ELSE d
    IN IF d1 > DistanceMax THEN DistanceMax ELSE d1

\* lines 355-361: the wheel zooms, and only a wheel event clamps
WheelDistance(d, wheel) ==
    IF Abs(wheel) > 0 THEN ClampDistance(d - wheel * WheelFactor) ELSE d

\* lines 363-366, in hundredths
Offset(d, p, y) ==
    <<RoundDiv(d * cosf(p) * sinf(y), 10000),
      RoundDiv(d * sinf(p), 10),
      RoundDiv(d * cosf(p) * cosf(y), 10000)>>

\* a position in whole units as hundredths
Hundredths(t) == <<100 * t[1], 100 * t[2], 100 * t[3]>>

\* lines 368-371: the camera basis; cameraPos and the offset in hundredths
Basis(t, off) ==
    LET cameraPos == Add3(Hundredths(t), off)
        forward   == normalize(Sub3(Hundredths(t), cameraPos))
        right     == normalize(cross(<<0, 1000, 0>>, forward))
        camUp     == cross(forward, right)
    IN [forward |-> forward, right |-> right, camUp |-> camUp]

\* v * panSpeed in whole units: v in thousandths, panSpeed = 5.0f * ElapsedTime
PanStep(v, elapsedMs) ==
    LET panSpeed == PanFactor * elapsedMs
    IN <<RoundDiv(v[1] * panSpeed, 1000000), RoundDiv(v[2] * panSpeed, 1000000),
         RoundDiv(v[3] * panSpeed, 1000000)>>

\* lines 373-381: the four arrow keys move the target, tested in this order
Pan(t, basis, io) ==
    LET up == PanStep(basis.camUp, io.elapsedMs)
        rt == PanStep(basis.right, io.elapsedMs)
        t1 == IF "UpArrow"    \in io.keys THEN Add3(t, up)  ELSE t
        t2 == IF "DownArrow"  \in io.keys THEN Sub3(t1, up) ELSE t1
        t3 == IF "RightArrow" \in io.keys THEN Add3(t2, rt) ELSE t2
    IN IF "LeftArrow" \in io.keys THEN Sub3(t3, rt) ELSE t3

\* lines 419-497: a pressed preset button assigns yaw and pitch
ButtonYaw(y, b) == IF b = NoButton THEN y ELSE PresetYaw(b)

\* ButtonPitch with the pitch assignment of "Front" (line 456) missing
ButtonPitchFrontKeeps(p, b) ==
    IF b = NoButton \/ b = "Front" THEN p ELSE PresetPitch(b)

ButtonPitch(p, b) == IF b = NoButton THEN p ELSE PresetPitch(b)

\* What ImGui reports to one Update call
DragDeltas == {-157, 157}
Drags == {[dragging |-> FALSE, dx |-> 0]}
            \cup {[dragging |-> TRUE, dx |-> d] : d \in DragDeltas}
Wheels == {-60, 0, 45}
Arrows == {"UpArrow", "DownArrow", "RightArrow", "LeftArrow"}
ElapsedMs == {200}

\* the number of input channels (drag, wheel, keys, button) active in io
Active(io) == (IF io.dragging THEN 1 ELSE 0) + (IF io.wheel # 0 THEN 1 ELSE 0)
              + (IF io.keys # {} THEN 1 ELSE 0) + (IF io.button # NoButton THEN 1 ELSE 0)

Inputs == {io \in [dragging : BOOLEAN, dx : DragDeltas \cup {0}, wheel : Wheels,
                   keys : SUBSET Arrows, button : ButtonNames \cup {NoButton},
                   elapsedMs : ElapsedMs] :
             /\ [dragging |-> io.dragging, dx |-> io.dx] \in Drags
             /\ Active(io) <= MaxActive}

InBox(t, t0) == LET d == Sub3(t, t0) IN d[1] * d[1] + d[2] * d[2] + d[3] * d[3] <= MaxPanSq

TargetInit == <<0, -4, 0>>

\* Update with the preset buttons handled ahead of the derivation of the
\* view: the pitch a button assigns reaches the view matrix unclamped
UpdateButtonsFirst(io) ==
    LET yaw1   == DragYaw(yaw, io)
        pitch1 == ButtonPitch(ClampPitch(pitch), io.button)
        dist1  == WheelDistance(distance, io.wheel)
        off    == Offset(dist1, pitch1, ButtonYaw(yaw1, io.button))
        basis  == Basis(target, off)
        tgt1   == Pan(target, basis, io)
    IN /\ pc = "idle"
       /\ io.dragging => Abs(yaw1) <= MaxYaw
       /\ InBox(tgt1, TargetInit)
       /\ yaw' = ButtonYaw(yaw1, io.button)
       /\ pitch' = pitch1
       /\ distance' = dist1
       /\ target' = tgt1
       /\ viewPitch' = pitch1
       /\ lastButton' = io.button
       /\ UNCHANGED <<renderVars, texVars>>

\* Tutorial05_TextureArray::Update, as one step of the frame loop
Update(io) ==
    LET yaw1   == DragYaw(yaw, io)
        pitch1 == ClampPitch(pitch)
        dist1  == WheelDistance(distance, io.wheel)
        off    == Offset(dist1, pitch1, yaw1)
        basis  == Basis(target, off)
        tgt1   == Pan(target, basis, io)
    IN /\ pc = "idle"
       /\ io.dragging => Abs(yaw1) <= MaxYaw
       /\ InBox(tgt1, TargetInit)
       /\ yaw' = ButtonYaw(yaw1, io.button)
       /\ pitch' = ButtonPitch(pitch1, io.button)
       /\ distance' = dist1
       /\ target' = tgt1
       /\ viewPitch' = pitch1
       /\ lastButton' = io.button
       /\ UNCHANGED <<renderVars, texVars>>

-----------------------------------------------------------------------------
\* Instance layout generator: PopulateInstanceBuffer

\* lines 212-276: <<scale (hundredths), translation, TextureInd>> of
\* InstanceDataArray[0..21], in the order they are assigned
Parts == <<
    << <<500,  10,   1>>, << 0,  0,  0>>, 3 >>,
    << <<  1,  10, 500>>, << 0,  0,  0>>, 3 >>,
    << << 10, 100,   1>>, <<-5, -1,  0>>, 3 >>,
    << << 10, 100,   1>>, << 5, -1,  0>>, 3 >>,
    << << 10, 100,   1>>, << 0,  1,  0>>, 3 >>,
    << <<  5, 100,   1>>, << 0, -1, -5>>, 3 >>,
    << <<  5, 100,   1>>, << 0, -1,  5>>, 3 >>,
    << <<100, 100, 100>>, <<-5, -2,  0>>, 0 >>,
    << <<100, 100, 100>>, << 5, -2,  0>>, 2 >>,
    << <<100, 100, 100>>, << 0, -2, -5>>, 1 >>,
    << <<100, 100, 100>>, << 0, -2,  5>>, 0 >>,
    << <<300,   5,   1>>, << 0, -5,  0>>, 3 >>,
    << <<  1,   5, 300>>, << 0, -5,  0>>, 3 >>,
    << <<  5, 400,   1>>, << 0, -1,  0>>, 3 >>,
    << <<  5, 100,   1>>, <<-3, -6,  0>>, 3 >>,
    << <<  5, 100,   1>>, << 3, -6,  0>>, 3 >>,
    << <<  5, 100,   1>>, << 0, -6,  3>>, 3 >>,
    << <<  5, 100,   1>>, << 0, -6, -3>>, 3 >>,
    << <<100, 100, 100>>, <<-3, -7,  0>>, 1 >>,
    << <<100, 100, 100>>, << 3, -7,  0>>, 0 >>,
    << <<100, 100, 100>>, << 0, -7,  3>>, 2 >>,
    << <<100, 100, 100>>, << 0, -7, -3>>, 1 >> >>


\* PartTexture with the layers counted from 1
PartTextureFromOne(i) == Parts[i + 1][3] + 1

\* InstanceDataArray[i].TextureInd, i counted from 0
PartTexture(i) == Parts[i + 1][3]

\* InstanceDataArray[i].Matrix = Scale * Translation * RotationY(a), kept as
\* its three factors
PartMatrix(i, a) == [Scale |-> Parts[i + 1][1], Translation |-> Parts[i + 1][2],
                     RotationY |-> a]


\* AdvanceAngle with = written for += (line 209)
AdvanceAngleAssigns(a) == AngleStep

\* line 209: angle += 0.003f
AdvanceAngle(a) == a + AngleStep

\* lines 206-276: the vector of NumInstances records, built with angle a
InstanceDataArray(a) ==
    [i \in 1..NumInstances |->
        [Matrix |-> PartMatrix(i - 1, a), TextureInd |-> PartTexture(i - 1)]]

\* PopulateInstanceBuffer: advance the angle, rebuild the records and
\* overwrite the head of the instance buffer with them (line 279)
PopulateInstanceBuffer ==
    /\ angle' = AdvanceAngle(angle)
    /\ populateCalls' = populateCalls + 1
    /\ m_InstanceBuffer' = InstanceDataArray(AdvanceAngle(angle))

-----------------------------------------------------------------------------
\* Texture array builder: LoadTextures

EmptySubres == [image |-> -1, mip |-> -1, valid |-> FALSE]
NoTexture == [ArraySize |-> 0, MipLevels |-> 0, Width |-> 0, Height |-> 0,
              Format |-> "none", NumSubresources |-> 0]

\* TexLoaders[tex]->GetTextureDesc(), tex counted from 0
TextureDesc(loaders, tex) == loaders[tex + 1]

\* line 144: the condition VERIFY tests for image tex
SameDesc(loaders, tex) ==
    tex = 0 \/ TextureDesc(loaders, tex) = TextureDesc(loaders, 0)

\* lines 133-145: some VERIFY of the loading loop fails.  VERIFY is the
\* engine's debug assertion: it stops a debug build and expands to nothing in
\* a release build.
VerifyStops(loaders, b) ==
    b = "debug" /\ \E tex \in 0..(NumTextures - 1) : ~SameDesc(loaders, tex)

\* TexLoaders[slice]->GetSubresourceData(mip, 0); a mip level the image does
\* not have is no valid data
SubresourceData(loaders, slice, mip) ==
    [image |-> slice, mip |-> mip,
     valid |-> mip < TextureDesc(loaders, slice).MipLevels]


\* SubresIndex with the slice varying fastest
SubresIndexSliceFastest(slice, mip, MipLevels) == mip * NumTextures + slice

\* line 159: the destination index of (slice, mip)
SubresIndex(slice, mip, MipLevels) == slice * MipLevels + mip

\* lines 157-160
RECURSIVE MipLoop(_, _, _, _, _)
MipLoop(st, loaders, slice, mip, MipLevels) ==
    IF mip < MipLevels
    THEN LET idx == SubresIndex(slice, mip, MipLevels)
         IN MipLoop([data   |-> [st.data EXCEPT ![idx + 1] =
                                     SubresourceData(loaders, slice, mip)],
                     writes |-> Append(st.writes, idx)],
                    loaders, slice, mip + 1, MipLevels)
    ELSE st

\* lines 155-161
RECURSIVE SliceLoop(_, _, _, _, _)
SliceLoop(st, loaders, slice, ArraySize, MipLevels) ==
    IF slice < ArraySize
    THEN SliceLoop(MipLoop(st, loaders, slice, 0, MipLevels), loaders, slice + 1,
                   ArraySize, MipLevels)
    ELSE st

\* lines 147-162: TexArrDesc and the initialization data
TexArrDesc(loaders) ==
    LET d == TextureDesc(loaders, 0)
    IN [ArraySize |-> NumTextures, MipLevels |-> d.MipLevels, Width |-> d.Width,
        Height |-> d.Height, Format |-> d.Format,
        NumSubresources |-> d.MipLevels * NumTextures]

InitData(loaders) ==
    LET desc == TexArrDesc(loaders)
    IN SliceLoop([data   |-> [k \in 1..(desc.ArraySize * desc.MipLevels) |-> EmptySubres],
                  writes |-> <<>>],
                 loaders, 0, desc.ArraySize, desc.MipLevels)

\* LoadTextures, lines 129-172
LoadTextures ==
    IF VerifyStops(TexLoaders, build)
    THEN /\ pc' = "aborted"
         /\ UNCHANGED <<SubresData, subresWrites, pTexArray, srbTexture>>
    ELSE /\ pc' = "idle"
         /\ SubresData' = InitData(TexLoaders).data
         /\ subresWrites' = InitData(TexLoaders).writes
         /\ pTexArray' = TexArrDesc(TexLoaders)
         /\ srbTexture' = "m_TextureSRV"

\* Initialize, lines 187-199: CreatePipelineState, the cube buffers,
\* CreateInstanceBuffer (which populates the instance buffer), LoadTextures
Initialize ==
    /\ pc = "boot"
    /\ PopulateInstanceBuffer
    /\ LoadTextures
    /\ UNCHANGED <<camVars, m_GridSize, cmds, cbMapped, m_VSConstants, DrawAttrs,
                   build, TexLoaders>>

-----------------------------------------------------------------------------
\* Frame renderer: UpdateUI and Render

GridSizes == 1..MaxGridSize

\* lines 179-182: the slider reports a new value
UpdateUI(g) ==
    /\ pc = "idle"
    /\ g # m_GridSize
    /\ populateCalls < MaxCalls
    /\ m_GridSize' = g
    /\ PopulateInstanceBuffer
    /\ UNCHANGED <<camVars, texVars, pc, cmds, cbMapped, m_VSConstants, DrawAttrs>>


\* InstanceCount with one factor missing (line 325)
InstanceCountSquare(g) == g * g

\* line 325
InstanceCount(g) == g * g * g

\* lines 287-294: Render starts and refreshes the instance buffer
RenderPopulate ==
    /\ pc = "idle"
    /\ populateCalls < MaxCalls
    /\ PopulateInstanceBuffer
    /\ cmds' = <<"UpdateBuffer">>
    /\ pc' = "clear"
    /\ UNCHANGED <<camVars, texVars, m_GridSize, cbMapped, m_VSConstants, DrawAttrs>>

\* lines 295-301
RenderClear ==
    /\ pc = "clear"
    /\ cmds' = cmds \o <<"ClearRenderTarget", "ClearDepthStencil">>
    /\ pc' = "map"
    /\ UNCHANGED <<camVars, texVars, m_GridSize, angle, populateCalls,
                   m_InstanceBuffer, cbMapped, m_VSConstants, DrawAttrs>>

\* line 305: MapHelper maps m_VSConstants, MAP_WRITE with MAP_FLAG_DISCARD
RenderMap ==
    /\ pc = "map"
    /\ cbMapped' = TRUE
    /\ m_VSConstants' = <<"discarded", "discarded">>
    /\ cmds' = Append(cmds, "MapBuffer")
    /\ pc' = "write"
    /\ UNCHANGED <<camVars, texVars, m_GridSize, angle, populateCalls,
                   m_InstanceBuffer, DrawAttrs>>

\* lines 306-307
RenderWrite ==
    /\ pc = "write"
    /\ m_VSConstants' = <<"m_ViewProjMatrix", "m_RotationMatrix">>
    /\ pc' = "unmap"
    /\ UNCHANGED <<camVars, texVars, m_GridSize, angle, populateCalls,
                   m_InstanceBuffer, cmds, cbMapped, DrawAttrs>>


\* RenderUnmap with the MapHelper declared in the scope of Render itself: the
\* buffer stays mapped until Render returns
RenderUnmapAtReturn ==
    /\ pc = "unmap"
    /\ pc' = "bind"
    /\ UNCHANGED <<camVars, texVars, m_GridSize, angle, populateCalls,
                   m_InstanceBuffer, cmds, cbMapped, m_VSConstants, DrawAttrs>>

\* line 308: the MapHelper goes out of scope and unmaps the buffer
RenderUnmap ==
    /\ pc = "unmap"
    /\ cbMapped' = FALSE
    /\ cmds' = Append(cmds, "UnmapBuffer")
    /\ pc' = "bind"
    /\ UNCHANGED <<camVars, texVars, m_GridSize, angle, populateCalls,
                   m_InstanceBuffer, m_VSConstants, DrawAttrs>>

\* lines 311-314
RenderBind ==
    /\ pc = "bind"
    /\ cmds' = cmds \o <<"SetVertexBuffers", "SetIndexBuffer">>
    /\ pc' = "pipeline"
    /\ UNCHANGED <<camVars, texVars, m_GridSize, angle, populateCalls,
                   m_InstanceBuffer, cbMapped, m_VSConstants, DrawAttrs>>

\* lines 317-320
RenderPipeline ==
    /\ pc = "pipeline"
    /\ cmds' = cmds \o <<"SetPipelineState", "CommitShaderResources">>
    /\ pc' = "draw"
    /\ UNCHANGED <<camVars, texVars, m_GridSize, angle, populateCalls,
                   m_InstanceBuffer, cbMapped, m_VSConstants, DrawAttrs>>

\* lines 322-328
RenderDraw ==
    /\ pc = "draw"
    /\ DrawAttrs' = [NumIndices |-> NumIndices,
                     NumInstances |-> InstanceCount(m_GridSize)]
    /\ cmds' = Append(cmds, "DrawIndexed")
    /\ pc' = "idle"
    /\ UNCHANGED <<camVars, texVars, m_GridSize, angle, populateCalls,
                   m_InstanceBuffer, cbMapped, m_VSConstants>>

Render == \/ RenderPopulate \/ RenderClear \/ RenderMap \/ RenderWrite
          \/ RenderUnmap \/ RenderBind \/ RenderPipeline \/ RenderDraw

-----------------------------------------------------------------------------
\* Specifications

\* the four images shipped with the program: same size, format and mip count
Assets == [tex \in 1..NumTextures |->
              [Width |-> 256, Height |-> 256, MipLevels |-> 1, Format |-> "RGBA8_UNORM_SRGB"]]

\* descriptors an image file may turn out to have
Descs == [Width : {128, 256}, Height : {256}, MipLevels : 1..MaxMips,
          Format : {"RGBA8_UNORM_SRGB", "RGBA8_UNORM"}]

\* the state after construction, before Initialize
Constructed(g, loaders, b) ==
    /\ yaw = 0 /\ pitch = 0 /\ distance = DistanceInit /\ target = TargetInit
    /\ viewPitch = 0 /\ lastButton = NoButton
    /\ m_GridSize = g /\ angle = PI_F /\ populateCalls = 0
    /\ m_InstanceBuffer = <<>> /\ pc = "boot" /\ cmds = <<>>
    /\ cbMapped = FALSE /\ m_VSConstants = <<"uninitialized", "uninitialized">>
    /\ DrawAttrs = [NumIndices |-> 0, NumInstances |-> 0]
    /\ build = b /\ TexLoaders = loaders
    /\ SubresData = <<>> /\ subresWrites = <<>>
    /\ pTexArray = NoTexture /\ srbTexture = "unbound"

\* the frame renderer, with the shipped images
Init == \E g \in GridSizes, b \in {"debug", "release"} : Constructed(g, Assets, b)
Next == \/ Initialize
        \/ \E g \in GridSizes : UpdateUI(g)
        \/ Render
Spec == Init /\ [][Next]_vars

\* the orbit camera
InitCamera == Constructed(1, Assets, "release")
NextCamera == \/ Initialize
              \/ \E io \in Inputs : Update(io)
SpecCamera == InitCamera /\ [][NextCamera]_vars

\* the texture array builder, over every batch of image descriptors
InitTextures == \E loaders \in [1..NumTextures -> Descs], b \in {"debug", "release"} :
                    Constructed(1, loaders, b)
NextTextures == Initialize
SpecTextures == InitTextures /\ [][NextTextures]_vars

-----------------------------------------------------------------------------
\* Properties of the orbit camera (SpecCamera)

HalfPi == PI_F \div 2
\* 0.99 * pi/2, in micro-radians
Pitch99 == (99 * HalfPi) \div 100

\* C1 as stated: at the end of every Update the stored pitch lies in
\* [-0.99*pi/2, +0.99*pi/2].
C1_PitchWithinLimit ==
    pc = "idle" => (-Pitch99 <= pitch /\ pitch <= Pitch99)

\* C1, amended: at the end of every Update the stored pitch lies in
\* [-pitchLimit, +pitchLimit], pitchLimit = 1.57*0.99 < 0.99*pi/2, unless the
\* Up or Down preset was pressed in that Update: then it is exactly +pi/2 or
\* -pi/2, and stays so until the clamp of the next Update.
C1_PitchWithinLimitUnlessUpDown ==
    pc = "idle" =>
        /\ pitchLimit <= Pitch99
        /\ lastButton = "Up" => pitch = HalfPi
        /\ lastButton = "Down" => pitch = -HalfPi
        /\ lastButton \notin {"Up", "Down"} =>
               (-pitchLimit <= pitch /\ pitch <= pitchLimit)

\* C1 witness: Down was pressed in an earlier Update and the Update that
\* followed pressed no button and clamped the pitch to -pitchLimit.
C1_Witness == pc = "idle" /\ lastButton = NoButton /\ pitch = -pitchLimit

\* C2: distance is always in [1,100], whatever wheel deltas, drags, pans and
\* presets the Updates saw.
C2_DistanceInRange == DistanceMin <= distance /\ distance <= DistanceMax

\* C2 witness: a wheel delta that would take the distance above 100 (the only
\* way to 100 with the wheel deltas explored) left it at 100, after a pan.
C2_Witness == pc = "idle" /\ distance = DistanceMax /\ target # TargetInit

\* yaw and pitch of every preset, as lines 419-497 assign them
C8_Expected(b) ==
    CASE b = "Front-Right"  -> <<PI_F \div 4, PI_F \div 4>>
      [] b = "Top-Right"    -> <<0, PI_F \div 4>>
      [] b = "Front-Left"   -> <<-(PI_F \div 4), PI_F \div 4>>
      [] b = "Right"        -> <<HalfPi, 0>>
      [] b = "Up"           -> <<0, HalfPi>>
      [] b = "Front"        -> <<0, 0>>
      [] b = "Left"         -> <<-HalfPi, 0>>
      [] b = "Down"         -> <<0, -HalfPi>>
      [] b = "Back"         -> <<PI_F, 0>>
      [] b = "Right-Bottom" -> <<PI_F \div 4, -(PI_F \div 4)>>
      [] b = "Down-Left"    -> <<0, -(PI_F \div 4)>>
      [] b = "Left-Bottom"  -> <<-(PI_F \div 4), -(PI_F \div 4)>>

\* the input in which preset b is pressed while the mouse and the arrow keys rest
C8_PresetAlone(b, ms) == [dragging |-> FALSE, dx |-> 0, wheel |-> 0, keys |-> {},
                          button |-> b, elapsedMs |-> ms]

\* C8: an Update in which a preset was pressed ends with the yaw and pitch of
\* that preset (Front: yaw = 0 and pitch = 0), whatever the state before; and
\* an Update that sees the preset alone (no wheel, no arrow key) leaves
\* distance and target as they were.
C8_PresetOverwritesOrientation ==
    [][lastButton' # NoButton =>
          /\ <<yaw', pitch'>> = C8_Expected(lastButton')
          /\ lastButton' = "Front" => (yaw' = 0 /\ pitch' = 0)
          /\ \A ms \in ElapsedMs :
                Update(C8_PresetAlone(lastButton', ms))
                    => (distance' = distance /\ target' = target)]_vars

\* C8 witness: Front was pressed with the camera zoomed out to 100 and the
\* target panned away from its initial position.
C8_Witness ==
    /\ lastButton = "Front" /\ yaw = 0 /\ pitch = 0
    /\ distance = DistanceMax /\ target # TargetInit

-----------------------------------------------------------------------------
\* Properties of the frame renderer and the instance layout generator (Spec)

\* position of command c in cmds, 0 if it was not issued
Pos(c) == IF \E i \in 1..Len(cmds) : cmds[i] = c
          THEN CHOOSE i \in 1..Len(cmds) : cmds[i] = c ELSE 0
\* number of times command c was issued
Count(c) == Cardinality({i \in 1..Len(cmds) : cmds[i] = c})
\* if b was issued, a was issued before it
IssuedBefore(a, b) == Pos(b) # 0 => (Pos(a) # 0 /\ Pos(a) < Pos(b))
\* a Render has run to its end
FrameDone == pc = "idle" /\ cmds # <<>>

\* C3: every Render issues exactly one DrawIndexed, with NumIndices = 36 and
\* NumInstances = m_GridSize^3 for the m_GridSize in [1,32] current at the
\* draw, and no other draw call.
C3_OneDrawPerFrame ==
    [][/\ m_GridSize' \in 1..32
       /\ Count("DrawIndexed")' <= 1
       /\ FrameDone' => Count("DrawIndexed")' = 1
       /\ (pc = "draw" /\ pc' = "idle") =>
             /\ DrawAttrs'.NumIndices = 36
             /\ DrawAttrs'.NumInstances = m_GridSize * m_GridSize * m_GridSize
             /\ Count("DrawIndexed") = 0]_vars

\* C3 witness: a frame drawn with the largest grid.
C3_Witness ==
    FrameDone /\ m_GridSize = 32 /\ DrawAttrs = [NumIndices |-> 36, NumInstances |-> 32768]

\* the texture layer of each of the 22 parts, as lines 213-276 assign them
C6_Layers == <<3, 3, 3, 3, 3, 3, 3, 0, 2, 1, 0, 3, 3, 3, 3, 3, 3, 3, 1, 0, 2, 1>>

\* C6: after k PopulateInstanceBuffer calls, from whichever caller, the angle
\* is its initial value plus k increments of 0.003; every call adds exactly
\* one increment, the angle never decreases or resets, and every call writes
\* the same 22 records but for their rotation.
C6_OnlyRotationChanges ==
    /\ (angle = PI_F /\ populateCalls = 0)
    /\ [][/\ angle' = PI_F + populateCalls' * 3000
          /\ angle' >= angle
          /\ populateCalls' # populateCalls =>
                /\ populateCalls' = populateCalls + 1
                /\ angle' = angle + 3000
                /\ Len(m_InstanceBuffer') = 22
                /\ \A i \in 1..22 : m_InstanceBuffer'[i].TextureInd = C6_Layers[i]
                /\ \A i \in 1..Len(m_InstanceBuffer) :
                      /\ m_InstanceBuffer'[i].TextureInd = m_InstanceBuffer[i].TextureInd
                      /\ m_InstanceBuffer'[i].Matrix.Scale = m_InstanceBuffer[i].Matrix.Scale
                      /\ m_InstanceBuffer'[i].Matrix.Translation
                            = m_InstanceBuffer[i].Matrix.Translation
                      /\ m_InstanceBuffer'[i].Matrix.RotationY
                            = m_InstanceBuffer[i].Matrix.RotationY + 3000
          /\ populateCalls' = populateCalls => m_InstanceBuffer' = m_InstanceBuffer]_vars

\* C6 witness: the buffer was populated by Initialize, by a slider change and
\* by two Renders.
C6_Witness ==
    /\ populateCalls >= 4 /\ FrameDone /\ m_GridSize = 7
    /\ m_InstanceBuffer[1].Matrix.RotationY = PI_F + populateCalls * 3000

\* C7: every record in the instance buffer has a texture layer in {0,1,2,3},
\* a layer of the 4-layer array, for every grid size.
C7_LayerInArray ==
    /\ \A i \in 1..Len(m_InstanceBuffer) : m_InstanceBuffer[i].TextureInd \in {0, 1, 2, 3}
    /\ pTexArray # NoTexture =>
         \A i \in 1..Len(m_InstanceBuffer) :
            m_InstanceBuffer[i].TextureInd < pTexArray.ArraySize

\* C7 witness: records uploaded by a Render with the largest grid, against
\* the array that was created; the last layer is in use.
C7_Witness ==
    /\ FrameDone /\ m_GridSize = 32 /\ pTexArray.ArraySize = 4
    /\ \E i \in 1..Len(m_InstanceBuffer) : m_InstanceBuffer[i].TextureInd = 3

C10_EveryInstanceHasRecord ==
    FrameDone => DrawAttrs.NumInstances <= Len(m_InstanceBuffer)

-----------------------------------------------------------------------------
\* Properties of the texture array builder (SpecTextures)

\* every image has the descriptor of image 0
Uniform(loaders) == \A tex \in 1..NumTextures : loaders[tex] = loaders[1]

\* C4: for N images of one descriptor with M mip levels, the array is created
\* with ArraySize = N and N*M subresources; destination slice*M + mip holds
\* mip level mip of image slice, and every destination is written once.
C4_SubresourceLayout ==
    (pc = "idle" /\ Uniform(TexLoaders)) =>
        LET M == TexLoaders[1].MipLevels
        IN /\ pTexArray.ArraySize = 4
           /\ pTexArray.MipLevels = M
           /\ pTexArray.NumSubresources = 4 * M
           /\ Len(SubresData) = 4 * M
           /\ \A slice \in 0..3 : \A mip \in 0..(M - 1) :
                 SubresData[slice * M + mip + 1]
                    = [image |-> slice, mip |-> mip, valid |-> TRUE]
           /\ Len(subresWrites) = 4 * M
           /\ \A k \in 0..(4 * M - 1) :
                 Cardinality({j \in 1..Len(subresWrites) : subresWrites[j] = k}) = 1
           /\ \A j \in 1..Len(subresWrites) : subresWrites[j] = j - 1

\* C4 witness: four images of one descriptor with three mip levels, loaded.
C4_Witness ==
    /\ pc = "idle" /\ Uniform(TexLoaders) /\ TexLoaders[1].MipLevels = 3
    /\ SubresData[3 * 3 + 2 + 1] = [image |-> 3, mip |-> 2, valid |-> TRUE]

\* C5 as stated: when some image's descriptor differs from that of image 0,
\* LoadTextures stops before CreateTexture: no texture array exists and no
\* shader-resource view is bound.
C5_MismatchCreatesNothing ==
    (pc # "boot" /\ ~Uniform(TexLoaders)) =>
        (pTexArray = NoTexture /\ srbTexture = "unbound")

-----------------------------------------------------------------------------
\* The pitch behind the view matrix (SpecCamera)

\* C11: every Update derives the view matrix from the pitch stored by the
\* Update before it, clamped to [-pitchLimit, +pitchLimit]: the clamp runs
\* ahead of the derivation and the preset buttons after it.  A preset pressed
\* in an Update leaves the view of that Update as it would have been without
\* it, and enters the view of the next Update clamped (Up as +pitchLimit,
\* Down as -pitchLimit); no view matrix comes from a pitch outside the limit.
C11_ViewPitchClamped ==
    [][(pc = "idle" /\ pc' = "idle") =>
          /\ -1554300 <= viewPitch' /\ viewPitch' <= 1554300
          /\ viewPitch' = (IF pitch > 1554300 THEN 1554300
                           ELSE IF pitch < -1554300 THEN -1554300 ELSE pitch)
          /\ lastButton = "Up" => viewPitch' = 1554300
          /\ lastButton = "Down" => viewPitch' = -1554300
          /\ (lastButton' # NoButton /\ lastButton = NoButton) => viewPitch' = pitch
          /\ cosf(viewPitch') > 0]_vars

\* C11 witness: Up was pressed in one Update, which left the view level and
\* the stored pitch at pi/2; the Update after it derived the view from
\* +pitchLimit.
C11_Witness ==
    /\ pc = "idle" /\ lastButton = NoButton
    /\ viewPitch = pitchLimit /\ pitch = pitchLimit

====
